---- MODULE Spec2Model ----
(***************************************************************************)
(* Forward passes of the three Keras layers of IOB/layers.py:              *)
(* GraphOperator, Adjacency (with its helper _learn_adjacencies) and GNN.  *)
(*                                                                         *)
(* A tensor is a record [shape, data]: its shape as a sequence of          *)
(* dimensions and its entries in row-major order.  Entries are integers:   *)
(* every input drawn below is integer valued and every Euclidean norm that *)
(* is taken is a whole number, so the float32 arithmetic of the program is *)
(* exact on them.  A call ends in an outcome [status, value, printed]:     *)
(* status is "ok" or the name of the exception that leaves the call, value *)
(* the sequence of tensors returned (empty when the call raises), printed  *)
(* the lines the call wrote to standard output.                            *)
(***************************************************************************)
EXTENDS Integers, Sequences, FiniteSets, TLC

VARIABLES power, max_nodes, n_features, adjW, gnnW, call, passes

vars == <<power, max_nodes, n_features, adjW, gnnW, call, passes>>

----------------------------------------------------------------------------
(* Bounds of the model *)

MaxDim == 3
MaxNodes == 2
MaxFeatures == 2
MaxSeed == 1
MaxPasses == 2

(* Program constants *)

DefaultPower == 2
NumOperators == 3

----------------------------------------------------------------------------
(* Tensors *)

RECURSIVE Prod(_)
Prod(s) == IF s = <<>> THEN 1 ELSE Head(s) * Prod(Tail(s))

RECURSIVE SumTo(_, _)
(* f[1] + ... + f[n] *)
SumTo(f, n) == IF n = 0 THEN 0 ELSE f[n] + SumTo(f, n - 1)

Tensor(shape, data) == [shape |-> shape, data |-> data]

Rank(t) == Len(t.shape)

(* t[i, j] of a rank-2 tensor, 1-based *)
At(t, i, j) == t.data[(i - 1) * t.shape[2] + j]

(* tf.squeeze without an axis: every dimension of size 1 goes *)
Squeeze(t) == [shape |-> SelectSeq(t.shape, LAMBDA d : d # 1), data |-> t.data]

Reshape(t, shape) == [shape |-> shape, data |-> t.data]

Eye(n) == Tensor(<<n, n>>, [k \in 1..(n * n) |-> IF (k - 1) \div n = (k - 1) % n THEN 1 ELSE 0])

ZerosLike(t) == Tensor(t.shape, [k \in DOMAIN t.data |-> 0])

MatMulData(a, b) ==
    LET m == a.shape[1]
        p == a.shape[2]
        n == b.shape[2]
        Cell(k) == LET i == ((k - 1) \div n) + 1
                       j == ((k - 1) % n) + 1
                   IN  SumTo([x \in 1..p |-> At(a, i, x) * At(b, x, j)], p)
    IN  Tensor(<<m, n>>, [k \in 1..(m * n) |-> Cell(k)])

MatMulOk(a, b) == Rank(a) = 2 /\ Rank(b) = 2 /\ a.shape[2] = b.shape[1]

Relu(t) == [shape |-> t.shape, data |-> [k \in DOMAIN t.data |-> IF t.data[k] > 0 THEN t.data[k] ELSE 0]]

Add(a, b) == [shape |-> a.shape, data |-> [k \in DOMAIN a.data |-> a.data[k] + b.data[k]]]

Ok(value) == [status |-> "ok", value |-> value, printed |-> <<>>]

Raise(exception) == [status |-> exception, value |-> <<>>, printed |-> <<>>]

----------------------------------------------------------------------------
(* GraphOperator.call *)

(* python -O strips assert statements *)
AssertSquareStripped(adj) == TRUE

(* assert adj.shape[1] == adj.shape[2] on the batched [1, R, C] input *)
AssertSquare(adj) == adj.shape[2] = adj.shape[3]

GraphOperator_call(self_power, adj) ==
    IF ~AssertSquare(adj) THEN Raise("AssertionError")
    ELSE LET sq == Squeeze(adj) IN
         IF Rank(sq) = 0 THEN Raise("IndexError")
         ELSE LET n  == sq.shape[1]
                  A0 == Eye(n)
              IN  IF ~MatMulOk(sq, sq) THEN Raise("InvalidArgumentError")
                  ELSE LET A1 == MatMulData(sq, sq)
                           A2 == MatMulData(A1, sq)
                       IN  Ok(<<A0, A1, A2>>)

----------------------------------------------------------------------------
(* Adjacency._learn_adjacencies *)

ISqrt(n) == CHOOSE r \in 0..n : r * r <= n /\ n < (r + 1) * (r + 1)

(* t[i] for a 0-based i: the entries under the first dimension's index i *)
Item(t, i) == LET w == Prod(Tail(t.shape)) IN SubSeq(t.data, i * w + 1, (i + 1) * w)

ItemOk(t, i) == Rank(t) >= 1 /\ i < t.shape[1]

(* tf.norm(a - b), the Euclidean norm *)
Norm(a, b) ==
    ISqrt(SumTo([k \in 1..Len(a) |-> (a[k] - b[k]) * (a[k] - b[k])], Len(a)))

(* new_adj[ik, jk] = v: a tf tensor supports no item assignment *)
SetItem(new_adj, ik, jk, v) == Raise("TypeError")

RECURSIVE LearnLoop(_, _, _, _)
LearnLoop(adj, node_vec, new_adj, k) ==
    IF k > Len(adj.data) THEN Ok(<<new_adj>>)
    ELSE LET ik == (k - 1) \div adj.shape[2]
             jk == (k - 1) % adj.shape[2]
             adj_ij == adj.data[k]
         IN  IF adj_ij = 0
             THEN LET r == SetItem(new_adj, ik, jk, 0)
                  IN  IF r.status # "ok" THEN r
                      ELSE LearnLoop(adj, node_vec, r.value[1], k + 1)
             ELSE IF adj_ij = 1
             THEN IF ~(ItemOk(node_vec, ik) /\ ItemOk(node_vec, jk))
                  THEN Raise("InvalidArgumentError")
                  ELSE LET r == SetItem(new_adj, ik, jk,
                                        Norm(Item(node_vec, ik), Item(node_vec, jk)))
                       IN  IF r.status # "ok" THEN r
                           ELSE LearnLoop(adj, node_vec, r.value[1], k + 1)
             ELSE LearnLoop(adj, node_vec, new_adj, k + 1)

(* Iterating a scalar tensor raises TypeError: a rank-0 adj fails at the   *)
(* outer loop, a rank-1 adj at the inner loop over its first element.      *)
_learn_adjacencies(adj, node_vec) ==
    LET new_adj == ZerosLike(adj) IN
    IF Rank(adj) < 2 THEN Raise("TypeError")
    ELSE LearnLoop(adj, node_vec, new_adj, 1)

----------------------------------------------------------------------------
(* Adjacency *)

AdjacencyWeightNames == {"w0_1", "w0_2", "w1_1", "w1_2", "w2_1", "w2_2"}

GNNWeightNames == {"w0", "w1", "w2"}

(* One draw of the random_normal initializer: entries in -3..3 that differ *)
(* from one weight matrix of a layer to the next.                          *)
Weight(units, seed, which) ==
    Tensor(<<units, units>>, [k \in 1..(units * units) |-> ((k * which + seed) % 7) - 3])

WeightIndex(name) ==
    CASE name \in {"w0", "w0_1"} -> 1 [] name \in {"w1", "w0_2"} -> 2
      [] name \in {"w2", "w1_1"} -> 3 [] name = "w1_2" -> 4
      [] name = "w2_1" -> 5 [] name = "w2_2" -> 6

Adjacency_build(self_max_nodes, seed) ==
    LET input_units == self_max_nodes * self_max_nodes
    IN  [name \in AdjacencyWeightNames |-> Weight(input_units, seed, WeightIndex(name))]

(* The guarded assertions of lines 76-87.  They read self.w0, which build  *)
(* never sets, so the block raises before either comparison is made; the   *)
(* bare except catches whatever is raised and prints.                      *)
ShapeAssertions(self_w, adj_list) ==
    IF Rank(adj_list[1]) = 0 THEN "IndexError"
    ELSE IF "w0" \notin DOMAIN self_w THEN "AttributeError"
    ELSE IF adj_list[1].shape[1] # self_w["w0"].shape[1] THEN "AssertionError"
    ELSE IF adj_list[1].shape[1] # self_w["w0"].shape[2] THEN "AssertionError"
    ELSE "none"

(* x * w for a flattened x and a square w: the shapes must broadcast *)
BroadcastOk(x, w) == x.shape[1] = w.shape[2] \/ x.shape[1] = 1 \/ w.shape[2] = 1

(* tf.matmul called with a single argument *)
MatMul1(a) == Raise("TypeError")

Printing(outcome, lines) == [outcome EXCEPT !.printed = lines \o @]

(* the assertion written as a lower bound on the length *)
AssertOperatorCountAtLeast(adj_list) == Len(adj_list) >= NumOperators

AssertOperatorCount(adj_list) == Len(adj_list) = NumOperators

(* Lines 108-128 follow the first tf.matmul call, which always raises:     *)
(* nothing after it runs.                                                  *)
Adjacency_call(self_w, inputs) ==
    LET adj_list == SubSeq(inputs, 1, Len(inputs) - 1)
        node_vec == inputs[Len(inputs)]
    IN  IF ~AssertOperatorCount(adj_list) THEN Raise("AssertionError")
        ELSE
        LET caught  == ShapeAssertions(self_w, adj_list)
            printed == IF caught # "none" THEN <<"Error 87 layer">> ELSE <<>>
            adj_0 == Squeeze(adj_list[1])
            adj_1 == Squeeze(adj_list[2])
            adj_2 == Squeeze(adj_list[3])
            nv    == Squeeze(node_vec)
            shape == adj_0.shape
            l0 == _learn_adjacencies(adj_0, nv)
            l1 == _learn_adjacencies(adj_1, nv)
            l2 == _learn_adjacencies(adj_2, nv)
        IN  IF l0.status # "ok" THEN Printing(l0, printed)
            ELSE IF l1.status # "ok" THEN Printing(l1, printed)
            ELSE IF l2.status # "ok" THEN Printing(l2, printed)
            ELSE LET flat_0 == Reshape(l0.value[1], <<Prod(l0.value[1].shape)>>)
                 IN  IF ~BroadcastOk(flat_0, self_w["w0_1"])
                     THEN Printing(Raise("InvalidArgumentError"), printed)
                     ELSE Printing(MatMul1(flat_0), printed)

----------------------------------------------------------------------------
(* GNN *)

GNN_build(self_n_features, seed) ==
    [name \in GNNWeightNames |-> Weight(self_n_features, seed, WeightIndex(name))]

(* every hop multiplied by the first weight matrix *)
HopWeightFirst(self_w, k) == self_w["w0"]

(* self.w0, self.w1, self.w2 of lines 196-198 *)
HopWeight(self_w, k) == self_w[CASE k = 0 -> "w0" [] k = 1 -> "w1" [] k = 2 -> "w2"]

GNN_call(self_w, inputs) ==
    LET X == inputs[1]
        learned_A0 == inputs[2]
        learned_A1 == inputs[3]
        learned_A2 == inputs[4]
        Fits(A, w) == MatMulOk(A, X) /\ MatMulOk(MatMulData(A, X), w)
    IN  IF ~Fits(learned_A0, HopWeight(self_w, 0)) THEN Raise("InvalidArgumentError")
        ELSE IF ~Fits(learned_A1, HopWeight(self_w, 1)) THEN Raise("InvalidArgumentError")
        ELSE IF ~Fits(learned_A2, HopWeight(self_w, 2)) THEN Raise("InvalidArgumentError")
        ELSE LET product_1 == MatMulData(MatMulData(learned_A0, X), HopWeight(self_w, 0))
                 product_2 == MatMulData(MatMulData(learned_A1, X), HopWeight(self_w, 1))
                 product_3 == MatMulData(MatMulData(learned_A2, X), HopWeight(self_w, 2))
                 X_sum == Add(Add(product_1, product_2), product_3)
             IN  Ok(<<Relu(X_sum)>>)

----------------------------------------------------------------------------
(* The tensors the layers are called with *)

Entry(pattern, i, j) ==
    CASE pattern = "zeros"  -> 0
      [] pattern = "ones"   -> 1
      [] pattern = "eye"    -> IF i = j THEN 1 ELSE 0
      [] pattern = "anti"   -> IF i = j THEN 0 ELSE 1
      [] pattern = "twos"   -> 2
      [] pattern = "signed" -> i - j
      [] pattern = "minus"  -> IF i = j THEN -1 ELSE 1

Matrix(r, c, pattern) ==
    Tensor(<<r, c>>, [k \in 1..(r * c) |->
                        Entry(pattern, ((k - 1) \div c) + 1, ((k - 1) % c) + 1)])

Batched(t) == [shape |-> <<1>> \o t.shape, data |-> t.data]

(* One feature row per node; row i is (i-1) times (3, 4, 0, ...), so the   *)
(* distance between rows i and j is the whole number 5|i-j| (3|i-j| for a  *)
(* single feature).                                                        *)
NodeVec(n, f) ==
    Tensor(<<n, f>>, [k \in 1..(n * f) |->
                        LET i == ((k - 1) \div f) + 1
                            j == ((k - 1) % f) + 1
                        IN  IF j = 1 THEN 3 * (i - 1)
                            ELSE IF j = 2 THEN 4 * (i - 1) ELSE 0])

(* 0/1 adjacency matrices of every shape up to MaxDim x (MaxDim+1), with   *)
(* the leading batch dimension of size 1.                                  *)
AdjInputs ==
    {Batched(Matrix(n, n, p)) : n \in 1..MaxDim, p \in {"zeros", "ones", "eye", "anti"}}
    \cup {Batched(Matrix(r, c, p)) : r \in 1..MaxDim, c \in 1..(MaxDim + 1),
                                     p \in {"ones", "eye"}}

HopMatrices ==
    {Matrix(n, n, p) : n \in 1..MaxDim, p \in {"anti", "ones", "twos"}}

NodeVecs == {NodeVec(n, 2) : n \in 1..MaxDim}

LearnInputs == {<<adj, node_vec>> : adj \in HopMatrices, node_vec \in NodeVecs}

Repeat(m, count) == [k \in 1..count |-> m]

(* Hop lists: what GraphOperator.call returns, NumOperators copies of one  *)
(* matrix, and lists of 0 to NumOperators+1 adjacency matrices.            *)
HopLists ==
    {GraphOperator_call(DefaultPower, adj).value : adj \in AdjInputs}
    \cup {Repeat(m, NumOperators) : m \in HopMatrices}
    \cup {Repeat(Matrix(n, n, "anti"), count) : n \in 2..MaxDim, count \in 0..(NumOperators + 1)}

NodesOf(hops) == IF hops = <<>> \/ Rank(hops[1]) = 0 THEN 1 ELSE hops[1].shape[1]

AdjacencyInputs == {Append(hops, NodeVec(NodesOf(hops), 2)) : hops \in HopLists}

(* X of shape [N, F] and three [N, N] operators, F matching the layer's    *)
(* n_features or not.                                                      *)
GNNInputs ==
    UNION {{<<Matrix(n, f, px), Matrix(n, n, p[1]), Matrix(n, n, p[2]), Matrix(n, n, p[3])>> :
                px \in {"signed", "ones"},
                p \in {<<"eye", "anti", "ones">>, <<"minus", "signed", "twos">>}} :
           n \in 1..MaxDim, f \in 1..MaxFeatures}

----------------------------------------------------------------------------
(* The layers and the calls made on them *)

Init ==
    /\ power \in {DefaultPower, DefaultPower + 1}
    /\ max_nodes \in 2..MaxNodes
    /\ n_features \in 1..MaxFeatures
    /\ \E seed \in 1..MaxSeed :
          /\ adjW = Adjacency_build(max_nodes, seed)
          /\ gnnW = GNN_build(n_features, seed)
    /\ call = [layer |-> "none", args |-> <<>>]
    /\ passes = <<>>

(* passes holds the outcomes of the consecutive passes made with the same  *)
(* layer and the same tensors, at most MaxPasses of them.                  *)
Returned(layer, args, outcome) ==
    LET this == [layer |-> layer, args |-> args]
    IN  /\ call' = this
        /\ passes' = IF call = this /\ Len(passes) < MaxPasses
                      THEN Append(passes, outcome) ELSE <<outcome>>

GraphOperatorCallOn(adj) ==
    /\ Returned("GraphOperator", <<adj>>, GraphOperator_call(power, adj))
    /\ UNCHANGED <<power, max_nodes, n_features, adjW, gnnW>>

GraphOperatorCall == \E adj \in AdjInputs : GraphOperatorCallOn(adj)

LearnAdjacenciesCallOn(args) ==
    /\ Returned("_learn_adjacencies", args, _learn_adjacencies(args[1], args[2]))
    /\ UNCHANGED <<power, max_nodes, n_features, adjW, gnnW>>

LearnAdjacenciesCall == \E args \in LearnInputs : LearnAdjacenciesCallOn(args)

(* a forward pass that stores the rectified first weight matrix back *)
AdjacencyCallOnStoring(inputs) ==
    /\ Returned("Adjacency", inputs, Adjacency_call(adjW, inputs))
    /\ adjW' = [adjW EXCEPT !["w0_1"] = Relu(@)]
    /\ UNCHANGED <<power, max_nodes, n_features, gnnW>>

AdjacencyCallOn(inputs) ==
    /\ Returned("Adjacency", inputs, Adjacency_call(adjW, inputs))
    /\ UNCHANGED <<power, max_nodes, n_features, adjW, gnnW>>

AdjacencyCall == \E inputs \in AdjacencyInputs : AdjacencyCallOn(inputs)

(* a forward pass that stores the rectified first weight matrix back *)
GNNCallOnStoring(inputs) ==
    /\ Returned("GNN", inputs, GNN_call(gnnW, inputs))
    /\ gnnW' = [gnnW EXCEPT !["w0"] = Relu(@)]
    /\ UNCHANGED <<power, max_nodes, n_features, adjW>>

GNNCallOn(inputs) ==
    /\ Returned("GNN", inputs, GNN_call(gnnW, inputs))
    /\ UNCHANGED <<power, max_nodes, n_features, adjW, gnnW>>

GNNCall == \E inputs \in GNNInputs : GNNCallOn(inputs)

Next == GraphOperatorCall \/ LearnAdjacenciesCall \/ AdjacencyCall \/ GNNCall

Spec == Init /\ [][Next]_vars

----------------------------------------------------------------------------
(* Properties *)

Last == passes[Len(passes)]

Called(layer) == call.layer = layer /\ passes # <<>>

SquareShape(t) == Rank(t) = 2 /\ t.shape[1] = t.shape[2]

(* C1: for every square 0/1 input of size N x N, N >= 1, given with a      *)
(* leading batch dimension of 1, and whatever `power` is, GraphOperator    *)
(* returns exactly [A0, A1, A2], each N x N, with A0 the identity,         *)
(* A1 = adj @ adj and A2 = A1 @ adj.                                       *)
C1_OperatorPowers ==
    (Called("GraphOperator") /\ call.args[1].shape[2] = call.args[1].shape[3]) =>
        LET adj == call.args[1]
            N == adj.shape[2]
            a(i, j) == adj.data[(i - 1) * N + j]
            sq(i, j) == SumTo([x \in 1..N |-> a(i, x) * a(x, j)], N)
            cube(i, j) == SumTo([x \in 1..N |-> sq(i, x) * a(x, j)], N)
        IN  /\ Last.status = "ok"
            /\ Len(Last.value) = 3
            /\ \A k \in 1..3 : Last.value[k].shape = <<N, N>>
            /\ \A i, j \in 1..N :
                  /\ At(Last.value[1], i, j) = IF i = j THEN 1 ELSE 0
                  /\ At(Last.value[2], i, j) = sq(i, j)
                  /\ At(Last.value[3], i, j) = cube(i, j)

(* C2: given an N x N matrix adj over {0,1} and node_vec of shape [N, F],  *)
(* _learn_adjacencies returns an N x N matrix that is 0 where adj is 0 and *)
(* the Euclidean norm of node_vec[i] - node_vec[j] where adj is 1.         *)
C2_DistanceTransform ==
    LET adj == call.args[1]
        node_vec == call.args[2]
    IN  ( /\ Called("_learn_adjacencies")
          /\ SquareShape(adj)
          /\ \A k \in DOMAIN adj.data : adj.data[k] \in {0, 1}
          /\ Rank(node_vec) = 2 /\ node_vec.shape[1] = adj.shape[1] ) =>
        LET N == adj.shape[1]
            F == node_vec.shape[2]
            d2(i, j) == SumTo([f \in 1..F |-> (At(node_vec, i, f) - At(node_vec, j, f))
                                               * (At(node_vec, i, f) - At(node_vec, j, f))], F)
        IN  /\ Last.status = "ok"
            /\ Len(Last.value) = 1
            /\ Last.value[1].shape = <<N, N>>
            /\ \A i, j \in 1..N :
                  LET e == At(Last.value[1], i, j)
                  IN  IF At(adj, i, j) = 0 THEN e = 0
                      ELSE e >= 0 /\ e * e = d2(i, j)

(* C3: for X of shape [N, F] and three [N, N] learned adjacencies, GNN.call *)
(* returns relu(L0 @ X @ w0 + L1 @ X @ w1 + L2 @ X @ w2), each hop with its *)
(* own weight matrix, and the result has the shape [N, F] of X.             *)
C3_Valid ==
    /\ Called("GNN")
    /\ Rank(call.args[1]) = 2
    /\ call.args[1].shape[2] = n_features
    /\ \A k \in 2..4 : call.args[k].shape = <<call.args[1].shape[1], call.args[1].shape[1]>>

C3_Hop(k, i, j) ==
    LET X == call.args[1]
        L == call.args[k + 2]
        w == gnnW[CASE k = 0 -> "w0" [] k = 1 -> "w1" [] k = 2 -> "w2"]
        LX(b) == SumTo([x \in 1..X.shape[1] |-> At(L, i, x) * At(X, x, b)], X.shape[1])
    IN  SumTo([b \in 1..X.shape[2] |-> LX(b) * At(w, b, j)], X.shape[2])

C3_Sum(i, j) == C3_Hop(0, i, j) + C3_Hop(1, i, j) + C3_Hop(2, i, j)

C3_GraphConvolution ==
    C3_Valid =>
        /\ Last.status = "ok"
        /\ Len(Last.value) = 1
        /\ Last.value[1].shape = call.args[1].shape
        /\ \A i \in 1..call.args[1].shape[1], j \in 1..call.args[1].shape[2] :
              At(Last.value[1], i, j) = IF C3_Sum(i, j) > 0 THEN C3_Sum(i, j) ELSE 0

C3_Witness ==
    /\ C3_Valid
    /\ Last.status = "ok"
    /\ call.args[1].shape[1] >= 2 /\ call.args[1].shape[2] >= 2
    /\ \E i \in 1..call.args[1].shape[1], j \in 1..call.args[1].shape[2] : C3_Sum(i, j) > 0
    /\ \E i \in 1..call.args[1].shape[1], j \in 1..call.args[1].shape[2] : C3_Sum(i, j) < 0
    /\ \A k \in 0..2 : \E i \in 1..call.args[1].shape[1], j \in 1..call.args[1].shape[2] :
          C3_Hop(k, i, j) # 0

(* C4: once the distance transform is done, Adjacency.call flattens each   *)
(* hop's matrix to a vector v_k of length N*N, computes                    *)
(* relu(relu(v_k @ w_k1) @ w_k2) with that hop's own pair of weights,      *)
(* reshapes it to [N, N] and returns the three results in hop order.       *)
C4_Learned(k) == _learn_adjacencies(Squeeze(call.args[k]), Squeeze(call.args[4]))

C4_MLP(k) ==
    LET learned == C4_Learned(k).value[1]
        v  == Reshape(learned, <<1, Prod(learned.shape)>>)
        w1 == adjW[CASE k = 1 -> "w0_1" [] k = 2 -> "w1_1" [] k = 3 -> "w2_1"]
        w2 == adjW[CASE k = 1 -> "w0_2" [] k = 2 -> "w1_2" [] k = 3 -> "w2_2"]
    IN  Reshape(Relu(MatMulData(Relu(MatMulData(v, w1)), w2)), learned.shape)

C4_PerHopMLP ==
    ( /\ Called("Adjacency")
      /\ Len(call.args) = 4
      /\ \A k \in 1..3 : /\ C4_Learned(k).status = "ok"
                          /\ Prod(call.args[k].shape) = max_nodes * max_nodes ) =>
        /\ Last.status = "ok"
        /\ Last.value = <<C4_MLP(1), C4_MLP(2), C4_MLP(3)>>

(* C5: GraphOperator.call raises the shape assertion's error, and returns  *)
(* no operator list, for every input that is not square.                   *)
C5_NonSquareRaises ==
    (Called("GraphOperator") /\ call.args[1].shape[2] # call.args[1].shape[3]) =>
        Last.status = "AssertionError" /\ Last.value = <<>>

C5_Witness ==
    /\ Called("GraphOperator")
    /\ call.args[1].shape = <<1, 3, 4>>
    /\ Last.status = "AssertionError"

(* C6: Adjacency.call raises the count assertion's error, and returns no   *)
(* learned adjacency, whenever the inputs before node_vec are not exactly  *)
(* three.                                                                  *)
C6_OperatorCountRaises ==
    (Called("Adjacency") /\ Len(call.args) - 1 # 3) =>
        Last.status = "AssertionError" /\ Last.value = <<>>

C6_Witness ==
    /\ Called("Adjacency")
    /\ Len(call.args) - 1 = 4
    /\ Last.status = "AssertionError"

(* C7: when the hop matrices do not fit the weights (N*N differs from      *)
(* input_units), Adjacency.call raises a shape assertion's error to the    *)
(* caller; it does not print the mismatch and go on.                       *)
C7_ShapeMismatchRaises ==
    ( /\ Called("Adjacency")
      /\ Len(call.args) = 4
      /\ SquareShape(call.args[1])
      /\ Prod(call.args[1].shape) # max_nodes * max_nodes ) =>
        Last.status = "AssertionError" /\ Last.printed = <<>>

(* C8: a hop matrix with an entry outside {0,1} makes the forward pass     *)
(* raise ValueError; the entry is never quietly turned into 0 in what the  *)
(* distance transform returns.                                             *)
C8_HasOtherEntry(t) == \E k \in DOMAIN t.data : t.data[k] \notin {0, 1}

C8_NonBinaryRaises ==
    ( \/ Called("_learn_adjacencies") /\ C8_HasOtherEntry(call.args[1])
      \/ /\ Called("Adjacency")
         /\ Len(call.args) = 4
         /\ \E k \in 1..3 : C8_HasOtherEntry(call.args[k]) ) =>
        Last.status = "ValueError"

C10_WeightsUntouched == [][adjW' = adjW /\ gnnW' = gnnW]_vars

C10_Witness ==
    /\ Called("Adjacency")
    /\ Len(passes) = 2
    /\ Last.status = "TypeError"
    /\ Last.printed # <<>>
    /\ \E seed \in 1..MaxSeed : /\ adjW = Adjacency_build(max_nodes, seed)
                                 /\ gnnW = GNN_build(n_features, seed)

====
